---------------------------- MODULE Spec2Model ----------------------------
(***************************************************************************)
(* NewsAlertBot: three single-run scripts that aggregate RSS headlines and *)
(* send them to notification channels.                                     *)
(*                                                                         *)
(*   fetch_news.py        collect_top_headlines / run_once                 *)
(*   newsbot_multi.py     fetch_items / format_text / main                 *)
(*   newsbot_once_rss.py  fetch_rss_items / main                           *)
(*                                                                         *)
(* Strings whose content the code inspects (titles) are sequences of       *)
(* one-character strings; links and sources are atomic strings; a rendered *)
(* message is a sequence of chunks [kind, len] so that slicing and         *)
(* appending act on lengths as the code's string operations do.            *)
(***************************************************************************)
EXTENDS Integers, Sequences, FiniteSets, TLC

VARIABLES
    script,       \* which of the three scripts this run executes
    pc,           \* position of the run in the script
    cfg,          \* the environment configuration the script reads
    max_items,    \* max_items / limit handed to the aggregator
    feedIdx,      \* index of the next feed of the configured list
    seen,         \* fetch_news: seen_titles
    collected,    \* fetch_news: collected
    rawItems,     \* newsbot_multi / newsbot_once_rss: items (before dedupe)
    headlines,    \* what the aggregator returned to its caller
    encountered,  \* history: entries delivered to the aggregator, in order
    fetchLog,     \* history: per fetch call, the unique entries held before it
    anyFailed,    \* history: some feed fetch failed
    anyUsable,    \* history: some fetch delivered an entry the aggregator keeps
    httpCalls,    \* history: number of HTTP requests issued so far
    sendLog,      \* history: delivery attempts [channel, dest, ok]
    destIdx,      \* index of the next destination of the current channel
    exitCode,     \* -1 while running, then the process exit status
    path,         \* which way the orchestrator ended
    text,         \* newsbot_multi: text returned by format_text
    waPayload,    \* newsbot_multi: text[:1500] handed to send_whatsapp
    fmtIn         \* per item, the lengths of the fields format_text renders

vars == <<script, pc, cfg, max_items, feedIdx, seen, collected, rawItems,
          headlines, encountered, fetchLog, anyFailed, anyUsable, httpCalls,
          sendLog, destIdx, exitCode, path, text, waPayload, fmtIn>>

---------------------------------------------------------------------------
(* Bounds of the model *)

NumFeeds == 2
MaxEntries == 2
MaxN == 2
NumDest == 2
MaxFmtItems == 3

(* Program constants *)

MAX_HEADLINES == 8
PAGE_SIZE_multi == 6
PAGE_SIZE_once == 8
TextLimit == 3900
WhatsAppLimit == 1500
NoticeLen == 29
FooterLen == 54
HeaderLen == 45

Scripts == {"fetch_news", "newsbot_multi", "newsbot_once_rss"}

---------------------------------------------------------------------------
(* String operations on titles *)

IsSpace(c) == c = " "

LowerChar(c) == IF c = "A" THEN "a" ELSE IF c = "B" THEN "b" ELSE c

LowerStr(s) == [i \in 1..Len(s) |-> LowerChar(s[i])]

RECURSIVE LStrip(_)
LStrip(s) == IF s # <<>> /\ IsSpace(Head(s)) THEN LStrip(Tail(s)) ELSE s

RECURSIVE RStrip(_)
RStrip(s) ==
    IF s # <<>> /\ IsSpace(s[Len(s)]) THEN RStrip(SubSeq(s, 1, Len(s) - 1)) ELSE s

Strip(s) == RStrip(LStrip(s))

RECURSIVE SplitAcc(_, _, _)
SplitAcc(s, cur, acc) ==
    IF s = <<>>
    THEN IF cur # <<>> THEN Append(acc, cur) ELSE acc
    ELSE IF IsSpace(Head(s))
         THEN SplitAcc(Tail(s), <<>>, IF cur # <<>> THEN Append(acc, cur) ELSE acc)
         ELSE SplitAcc(Tail(s), Append(cur, Head(s)), acc)

Split(s) == SplitAcc(s, <<>>, <<>>)

RECURSIVE JoinSpace(_)
JoinSpace(ws) ==
    IF ws = <<>> THEN <<>>
    ELSE IF Len(ws) = 1 THEN ws[1]
    ELSE ws[1] \o <<" ">> \o JoinSpace(Tail(ws))

\* tnorm = " ".join(title.lower().split())
NormTitle(title) == JoinSpace(Split(LowerStr(title)))

Take(s, n) == SubSeq(s, 1, IF n < Len(s) THEN n ELSE Len(s))

---------------------------------------------------------------------------
(* Feed documents the environment may deliver *)

\* raw <item> elements of a feed fetch_news.py reads
RawPool_news ==
    { [title |-> <<"A", " ", "b">>,            link |-> "L1"],
      [title |-> <<" ", "a", " ", " ", "b">>,  link |-> "L2"],
      [title |-> <<" ">>,                      link |-> "L1"],
      [title |-> <<"c">>,                      link |-> ""] }

\* raw <item> elements of a feed the feedparser-based scripts read
RawPool_rss ==
    { [title |-> <<"a">>,       link |-> "L1"],
      [title |-> <<>>,          link |-> "L2"],
      [title |-> <<"b", " ">>,  link |-> ""] }

RawPool(s) == IF s = "fetch_news" THEN RawPool_news ELSE RawPool_rss

SeqsUpTo(S, n) == UNION { [1..k -> S] : k \in 0..n }

\* what one fetch can come back with
FailKinds_requests == {"bad_status", "conn_error", "never", "bad_body"}
FailKinds_feedparser == {"raises", "never"}

Responses(s, n) ==
    { [kind |-> "ok", doc |-> d] : d \in SeqsUpTo(RawPool(s), n) }
    \cup { [kind |-> k, doc |-> <<>>] :
             k \in IF s = "fetch_news" THEN FailKinds_requests
                   ELSE FailKinds_feedparser }

\* the dedupe key of an entry, and whether the aggregator gives it one
Key(s, e) == IF s = "fetch_news" THEN NormTitle(e.title) ELSE e.link

HasKey(s, e) ==
    IF s = "fetch_news" THEN e.title # <<>>
    ELSE IF s = "newsbot_multi" THEN e.link # ""
    ELSE TRUE

---------------------------------------------------------------------------
(* fetch_news.py: fetch_feed_entries and collect_top_headlines *)

\* requests.get(..., timeout=REQUEST_TIMEOUT): a silent endpoint raises Timeout
fetch_feed_entries(resp) ==
    IF resp.kind = "ok"
    THEN [i \in 1..Len(resp.doc) |->
            [title |-> Strip(resp.doc[i].title),
             link |-> resp.doc[i].link,
             published |-> ""]]
    ELSE <<>>

RECURSIVE CollectLoop(_, _, _)
CollectLoop(entries, st, max) ==
    IF entries = <<>> THEN st
    ELSE LET e == Head(entries)
             tnorm == NormTitle(e.title)
         IN  IF e.title = <<>> THEN CollectLoop(Tail(entries), st, max)
             ELSE IF tnorm \in st.seen THEN CollectLoop(Tail(entries), st, max)
             ELSE LET st2 == [seen |-> st.seen \cup {tnorm},
                              collected |-> Append(st.collected, e)]
                  IN  IF Len(st2.collected) >= max THEN st2
                      ELSE CollectLoop(Tail(entries), st2, max)

\* One turn of "for feed in feeds": the fetch, the loop over its entries and
\* the cap check that ends the outer loop.
news_FetchFeed(n) ==
    /\ script = "fetch_news"
    /\ pc = "collect"
    /\ \E resp \in Responses(script, n) :
       \E entries \in {fetch_feed_entries(resp)} :
       \E st \in {CollectLoop(entries, [seen |-> seen, collected |-> collected],
                              max_items)} :
       \E full \in {Len(st.collected) >= max_items} :
           /\ seen' = st.seen
           /\ collected' = st.collected
           /\ feedIdx' = IF full THEN feedIdx ELSE feedIdx + 1
           /\ pc' = IF full \/ feedIdx = NumFeeds THEN "collected" ELSE "collect"
           /\ headlines' = IF full \/ feedIdx = NumFeeds THEN st.collected
                           ELSE headlines
           /\ encountered' = encountered \o entries
           /\ fetchLog' = Append(fetchLog, Len(collected))
           /\ anyFailed' = (anyFailed \/ resp.kind # "ok")
           /\ anyUsable' = (anyUsable \/ \E i \in DOMAIN entries : HasKey(script, entries[i]))
           /\ httpCalls' = httpCalls + 1
    /\ UNCHANGED <<script, cfg, max_items, rawItems, sendLog, destIdx,
                   exitCode, path, text, waPayload, fmtIn>>

---------------------------------------------------------------------------
(* newsbot_multi.py fetch_items, newsbot_once_rss.py fetch_rss_items *)

\* the entries feedparser.parse(url) yields, as the loop appends them
parsed_items(resp, src) ==
    [i \in 1..Len(resp.doc) |->
        [title |-> Strip(resp.doc[i].title),
         link |-> resp.doc[i].link,
         source |-> src]]

RECURSIVE DedupeLoop_multi(_, _, _)
DedupeLoop_multi(items, seenLinks, uniq) ==
    IF items = <<>> THEN uniq
    ELSE LET it == Head(items)
         IN  IF it.link # "" /\ it.link \notin seenLinks
             THEN DedupeLoop_multi(Tail(items), seenLinks \cup {it.link},
                                   Append(uniq, it))
             ELSE DedupeLoop_multi(Tail(items), seenLinks, uniq)

\* fetch_items as it would be with the seen-set test left out
RECURSIVE DedupeLoop_NoSeen(_, _, _)
DedupeLoop_NoSeen(items, seenLinks, uniq) ==
    IF items = <<>> THEN uniq
    ELSE LET it == Head(items)
         IN  IF it.link # ""
             THEN DedupeLoop_NoSeen(Tail(items), seenLinks, Append(uniq, it))
             ELSE DedupeLoop_NoSeen(Tail(items), seenLinks, uniq)

DedupeMutant_multi(items) == DedupeLoop_NoSeen(items, {}, <<>>)

Dedupe_multi(items) == DedupeLoop_multi(items, {}, <<>>)

RECURSIVE DedupeLoop_once(_, _, _)
DedupeLoop_once(items, seenLinks, unique) ==
    IF items = <<>> THEN unique
    ELSE LET it == Head(items)
         IN  IF it.link \notin seenLinks
             THEN DedupeLoop_once(Tail(items), seenLinks \cup {it.link},
                                  Append(unique, it))
             ELSE DedupeLoop_once(Tail(items), seenLinks, unique)

Dedupe_once(items) == DedupeLoop_once(items, {}, <<>>)

Dedupe(s, items) ==
    IF s = "newsbot_multi" THEN Dedupe_multi(items) ELSE Dedupe_once(items)

FeedName(i) == IF i = 1 THEN "F1" ELSE IF i = 2 THEN "F2" ELSE "F3"

\* One turn of the loop over feeds; feedparser.parse(url) opens the URL itself,
\* with no timeout.  After the last feed the function goes on to its dedupe
\* pass and returns uniq[:limit].
rss_FetchFeed(n) ==
    /\ script \in {"newsbot_multi", "newsbot_once_rss"}
    /\ pc = "fetch"
    /\ fetchLog' = Append(fetchLog, Len(Dedupe(script, rawItems)))
    /\ httpCalls' = httpCalls + 1
    /\ \E resp \in Responses(script, n) :
       IF resp.kind = "never"
       THEN /\ pc' = "blocked"
            /\ UNCHANGED <<rawItems, encountered, feedIdx, anyFailed, anyUsable,
                           headlines>>
       ELSE \E parsed \in {parsed_items(resp, FeedName(feedIdx))} :
            /\ rawItems' = rawItems \o parsed
            /\ encountered' = encountered \o parsed
            /\ anyFailed' = (anyFailed \/ resp.kind # "ok")
            /\ anyUsable' = (anyUsable \/ \E i \in DOMAIN parsed : HasKey(script, parsed[i]))
            /\ feedIdx' = feedIdx + 1
            /\ IF feedIdx = NumFeeds
               THEN /\ headlines' = Take(Dedupe(script, rawItems \o parsed), max_items)
                    /\ pc' = "returned"
               ELSE /\ headlines' = headlines
                    /\ pc' = "fetch"
    /\ UNCHANGED <<script, cfg, max_items, seen, collected, sendLog,
                   destIdx, exitCode, path, text, waPayload, fmtIn>>

---------------------------------------------------------------------------
(* The aggregators called on their own, for every cap 0..MaxN *)

NoCfg == [token |-> FALSE, chatIds |-> FALSE, numChats |-> 0, testMode |-> FALSE,
          email |-> FALSE, emailFrom |-> FALSE, twilioSid |-> FALSE,
          twilioAuth |-> FALSE, numWa |-> 0]

InitCommon ==
    /\ feedIdx = 1
    /\ seen = {}
    /\ collected = <<>>
    /\ rawItems = <<>>
    /\ headlines = <<>>
    /\ encountered = <<>>
    /\ fetchLog = <<>>
    /\ anyFailed = FALSE
    /\ anyUsable = FALSE
    /\ httpCalls = 0
    /\ sendLog = <<>>
    /\ destIdx = 1
    /\ exitCode = -1
    /\ path = ""
    /\ text = <<>>
    /\ waPayload = <<>>
    /\ fmtIn = <<>>

InitAgg ==
    /\ script \in Scripts
    /\ pc = IF script = "fetch_news" THEN "collect" ELSE "fetch"
    /\ cfg = NoCfg
    /\ max_items \in 0..MaxN
    /\ InitCommon

NextAgg ==
    \/ news_FetchFeed(MaxEntries)
    \/ rss_FetchFeed(MaxEntries)

SpecAgg == InitAgg /\ [][NextAgg]_vars

Returned == pc \in {"collected", "returned"}

---------------------------------------------------------------------------
(* newsbot_multi.py: format_text and the slice handed to send_whatsapp *)

ItemLens(items) ==
    [i \in 1..Len(items) |->
        [title |-> Len(items[i].title),
         source |-> Len(items[i].source),
         link |-> Len(items[i].link)]]

Digits(i) == IF i < 10 THEN 1 ELSE 2

\* len(f"{i}. {title}\n_{source}_\n{link}\n")
LineLen(i, it) == Digits(i) + 2 + it.title + 2 + it.source + 2 + it.link + 1

RECURSIVE SumLines(_, _)
SumLines(lens, i) ==
    IF i > Len(lens) THEN 0 ELSE LineLen(i, lens[i]) + 1 + SumLines(lens, i + 1)

\* "\n".join([header, ""] + item lines + [footer]): all that precedes the
\* footer, then the footer
Render(lens) ==
    << [kind |-> "body", len |-> HeaderLen + 1 + 1 + SumLines(lens, 1)],
       [kind |-> "footer", len |-> FooterLen] >>

RECURSIVE TextLen(_)
TextLen(t) == IF t = <<>> THEN 0 ELSE Head(t).len + TextLen(Tail(t))

\* t[:n]
RECURSIVE Slice(_, _)
Slice(t, n) ==
    IF t = <<>> \/ n <= 0 THEN <<>>
    ELSE IF Head(t).len <= n THEN <<Head(t)>> \o Slice(Tail(t), n - Head(t).len)
    ELSE << [kind |-> Head(t).kind, len |-> n] >>

Notice == [kind |-> "notice", len |-> NoticeLen]

format_text(lens) ==
    LET rendered == Render(lens)
    IN  IF TextLen(rendered) > TextLimit
        THEN Slice(rendered, TextLimit) \o <<Notice>>
        ELSE rendered

EndsWithNotice(t) == t # <<>> /\ t[Len(t)] = Notice

---------------------------------------------------------------------------
(* The orchestrators: run_once, newsbot_multi.main, newsbot_once_rss.main *)

\* what one requests.post can come back with
SendKinds == {"ok", "bad_status", "conn_error", "never"}

\* The configuration a run may find in its environment.  chatIds: a chat id
\* is configured (TELEGRAM_CHAT_IDS / TELEGRAM_CHAT_ID); numChats: the ids
\* read_env_secrets splits out of it; email: SENDGRID_API_KEY and EMAIL_TO;
\* twilioAuth: TWILIO_TOKEN and TWILIO_FROM; numWa: the recipients of
\* TWILIO_TO, which is set when there is at least one.
CfgSet(s) ==
    IF s = "fetch_news"
    THEN { c \in [token : BOOLEAN, chatIds : BOOLEAN, numChats : 0..NumDest,
                  testMode : BOOLEAN, email : {FALSE}, emailFrom : {FALSE},
                  twilioSid : {FALSE}, twilioAuth : {FALSE}, numWa : {0}] :
             ~c.chatIds => c.numChats = 0 }
    ELSE IF s = "newsbot_multi"
    THEN [token : BOOLEAN, chatIds : BOOLEAN, numChats : {0},
          testMode : {FALSE}, email : BOOLEAN, emailFrom : BOOLEAN,
          twilioSid : BOOLEAN, twilioAuth : BOOLEAN, numWa : 0..NumDest]
    ELSE [token : BOOLEAN, chatIds : BOOLEAN, numChats : {0},
          testMode : {FALSE}, email : {FALSE}, emailFrom : {FALSE},
          twilioSid : {FALSE}, twilioAuth : {FALSE}, numWa : {0}]

ConfiguredCap(s) ==
    IF s = "fetch_news" THEN MAX_HEADLINES
    ELSE IF s = "newsbot_multi" THEN PAGE_SIZE_multi
    ELSE PAGE_SIZE_once

\* the orchestrator as it would be with the empty check left out
NothingToSend_Never(items) == FALSE

\* if not headlines / if not items
NothingToSend(items) == items = <<>>

Finish(code, how) ==
    /\ pc' = "done"
    /\ exitCode' = code
    /\ path' = how

Attempt(channel, dest, resp) ==
    /\ sendLog' = Append(sendLog, [channel |-> channel, dest |-> dest,
                                   ok |-> (resp = "ok")])
    /\ httpCalls' = httpCalls + 1

\* run_once: read_env_secrets() raises SystemExit(1) before anything else
news_ReadEnvSecrets ==
    /\ script = "fetch_news"
    /\ pc = "start"
    /\ IF ~cfg.token \/ ~cfg.chatIds
       THEN Finish(1, "missing_credentials")
       ELSE /\ pc' = "collect"
            /\ UNCHANGED <<exitCode, path>>
    /\ UNCHANGED <<script, cfg, max_items, feedIdx, seen, collected, rawItems,
                   headlines, encountered, fetchLog, anyFailed, anyUsable,
                   httpCalls, sendLog, destIdx, text, waPayload, fmtIn>>

\* run_once after collect_top_headlines returned: the empty check, the
\* message, the test-mode print
news_CheckHeadlines ==
    /\ script = "fetch_news"
    /\ pc = "collected"
    /\ seen' = {}
    /\ collected' = <<>>
    /\ encountered' = <<>>
    /\ IF NothingToSend(headlines) THEN Finish(0, "nothing_to_send")
       ELSE IF cfg.testMode THEN Finish(0, "test_mode")
       ELSE /\ pc' = "send"
            /\ UNCHANGED <<exitCode, path>>
    /\ UNCHANGED <<script, cfg, max_items, feedIdx, rawItems, headlines,
                   fetchLog, anyFailed, anyUsable, httpCalls, sendLog, destIdx,
                   text, waPayload, fmtIn>>

\* one turn of "for cid in chat_ids": send_telegram_message posts with
\* timeout=15 and turns every failure into False
news_SendTelegram(resp) ==
    /\ script = "fetch_news"
    /\ pc = "send"
    /\ destIdx <= cfg.numChats
    /\ Attempt("telegram", destIdx, resp)
    /\ destIdx' = destIdx + 1
    /\ UNCHANGED <<script, pc, cfg, max_items, feedIdx, seen, collected,
                   rawItems, headlines, encountered, fetchLog, anyFailed,
                   anyUsable, exitCode, path, text, waPayload, fmtIn>>

news_Done ==
    /\ script = "fetch_news"
    /\ pc = "send"
    /\ destIdx > cfg.numChats
    /\ Finish(0, "dispatched")
    /\ UNCHANGED <<script, cfg, max_items, feedIdx, seen, collected, rawItems,
                   headlines, encountered, fetchLog, anyFailed, anyUsable,
                   httpCalls, sendLog, destIdx, text, waPayload, fmtIn>>

\* newsbot_multi.main after fetch_items returned
multi_CheckItems ==
    /\ script = "newsbot_multi"
    /\ pc = "returned"
    /\ rawItems' = <<>>
    /\ encountered' = <<>>
    /\ IF NothingToSend(headlines)
       THEN /\ Finish(0, "nothing_to_send")
            /\ text' = text
       ELSE /\ text' = format_text(ItemLens(headlines))
            /\ pc' = "telegram"
            /\ UNCHANGED <<exitCode, path>>
    /\ UNCHANGED <<script, cfg, max_items, feedIdx, seen, collected, headlines,
                   fetchLog, anyFailed, anyUsable, httpCalls, sendLog, destIdx,
                   waPayload, fmtIn>>

\* "if chat_id: try: send_telegram(chat_id, text) except ..."; send_telegram
\* returns at once without TELEGRAM_BOT_TOKEN
multi_Telegram(resp) ==
    /\ script = "newsbot_multi"
    /\ pc = "telegram"
    /\ IF cfg.chatIds /\ cfg.token
       THEN Attempt("telegram", 1, resp)
       ELSE UNCHANGED <<sendLog, httpCalls>>
    /\ pc' = "email"
    /\ UNCHANGED <<script, cfg, max_items, feedIdx, seen, collected, rawItems,
                   headlines, encountered, fetchLog, anyFailed, anyUsable,
                   destIdx, exitCode, path, text, waPayload, fmtIn>>

\* "if SENDGRID_API_KEY and EMAIL_TO: try: send_email(...) except ..."
multi_Email(resp) ==
    /\ script = "newsbot_multi"
    /\ pc = "email"
    /\ IF cfg.email /\ cfg.emailFrom
       THEN Attempt("email", 1, resp)
       ELSE UNCHANGED <<sendLog, httpCalls>>
    /\ pc' = "whatsapp"
    /\ UNCHANGED <<script, cfg, max_items, feedIdx, seen, collected, rawItems,
                   headlines, encountered, fetchLog, anyFailed, anyUsable,
                   destIdx, exitCode, path, text, waPayload, fmtIn>>

\* "if TWILIO_SID and TWILIO_TO: try: send_whatsapp(text[:1500])"
multi_WhatsApp ==
    /\ script = "newsbot_multi"
    /\ pc = "whatsapp"
    /\ IF cfg.twilioSid /\ cfg.numWa > 0
       THEN /\ waPayload' = Slice(text, WhatsAppLimit)
            /\ IF cfg.twilioAuth
               THEN /\ pc' = "wa_loop"
                    /\ UNCHANGED <<exitCode, path>>
               ELSE Finish(0, "dispatched")
       ELSE /\ Finish(0, "dispatched")
            /\ UNCHANGED waPayload
    /\ UNCHANGED <<script, cfg, max_items, feedIdx, seen, collected, rawItems,
                   headlines, encountered, fetchLog, anyFailed, anyUsable,
                   httpCalls, sendLog, destIdx, text, fmtIn>>

\* one turn of the loop of send_whatsapp: the response is not inspected, and
\* an exception of requests.post leaves the loop for main's except clause
multi_WhatsAppSend(resp) ==
    /\ script = "newsbot_multi"
    /\ pc = "wa_loop"
    /\ destIdx <= cfg.numWa
    /\ Attempt("whatsapp", destIdx, resp)
    /\ destIdx' = destIdx + 1
    /\ IF resp \in {"conn_error", "never"}
       THEN Finish(0, "dispatched")
       ELSE UNCHANGED <<pc, exitCode, path>>
    /\ UNCHANGED <<script, cfg, max_items, feedIdx, seen, collected, rawItems,
                   headlines, encountered, fetchLog, anyFailed, anyUsable,
                   text, waPayload, fmtIn>>

multi_WhatsAppDone ==
    /\ script = "newsbot_multi"
    /\ pc = "wa_loop"
    /\ destIdx > cfg.numWa
    /\ Finish(0, "dispatched")
    /\ UNCHANGED <<script, cfg, max_items, feedIdx, seen, collected, rawItems,
                   headlines, encountered, fetchLog, anyFailed, anyUsable,
                   httpCalls, sendLog, destIdx, text, waPayload, fmtIn>>

\* newsbot_once_rss.main after fetch_rss_items returned
once_CheckItems ==
    /\ script = "newsbot_once_rss"
    /\ pc = "returned"
    /\ rawItems' = <<>>
    /\ encountered' = <<>>
    /\ IF NothingToSend(headlines) THEN Finish(0, "nothing_to_send")
       ELSE /\ pc' = "send"
            /\ UNCHANGED <<exitCode, path>>
    /\ UNCHANGED <<script, cfg, max_items, feedIdx, seen, collected, headlines,
                   fetchLog, anyFailed, anyUsable, httpCalls, sendLog, destIdx,
                   text, waPayload, fmtIn>>

\* send_telegram: requests.post without a timeout, then raise_for_status();
\* nothing catches what they raise.  Telegram answers a request for
\* "botNone" or without a chat id with an error status.
once_SendTelegram(resp) ==
    /\ script = "newsbot_once_rss"
    /\ pc = "send"
    /\ resp = "ok" => (cfg.token /\ cfg.chatIds)
    /\ Attempt("telegram", 1, resp)
    /\ IF resp = "never"
       THEN /\ pc' = "blocked"
            /\ UNCHANGED <<exitCode, path>>
       ELSE IF resp = "ok" THEN Finish(0, "dispatched")
       ELSE Finish(1, "unhandled_error")
    /\ UNCHANGED <<script, cfg, max_items, feedIdx, seen, collected, rawItems,
                   headlines, encountered, fetchLog, anyFailed, anyUsable,
                   destIdx, text, waPayload, fmtIn>>

Init ==
    /\ script \in Scripts
    /\ pc = IF script = "fetch_news" THEN "start" ELSE "fetch"
    /\ cfg \in CfgSet(script)
    /\ max_items = ConfiguredCap(script)
    /\ InitCommon

\* a feed document of a whole run: at most one item
Next ==
    \/ news_ReadEnvSecrets
    \/ news_FetchFeed(1)
    \/ news_CheckHeadlines
    \/ \E resp \in SendKinds : news_SendTelegram(resp)
    \/ news_Done
    \/ rss_FetchFeed(1)
    \/ multi_CheckItems
    \/ \E resp \in SendKinds : multi_Telegram(resp)
    \/ \E resp \in SendKinds : multi_Email(resp)
    \/ multi_WhatsApp
    \/ \E resp \in SendKinds : multi_WhatsAppSend(resp)
    \/ multi_WhatsAppDone
    \/ once_CheckItems
    \/ \E resp \in SendKinds : once_SendTelegram(resp)

Spec == Init /\ [][Next]_vars

---------------------------------------------------------------------------
(* format_text and the WhatsApp slice on their own, for items of any size *)

FmtItemLens == [title : {0, 60, 1400, 3900}, source : {12}, link : {40}]

InitFmt ==
    /\ script = "newsbot_multi"
    /\ pc = "format"
    /\ cfg = NoCfg
    /\ max_items = ConfiguredCap(script)
    /\ feedIdx = 1
    /\ seen = {}
    /\ collected = <<>>
    /\ rawItems = <<>>
    /\ headlines = <<>>
    /\ encountered = <<>>
    /\ fetchLog = <<>>
    /\ anyFailed = FALSE
    /\ anyUsable = FALSE
    /\ httpCalls = 0
    /\ sendLog = <<>>
    /\ destIdx = 1
    /\ exitCode = -1
    /\ path = ""
    /\ text = <<>>
    /\ waPayload = <<>>
    /\ fmtIn \in SeqsUpTo(FmtItemLens, MaxFmtItems) \ {<<>>}

fmt_FormatText ==
    /\ pc = "format"
    /\ text' = format_text(fmtIn)
    /\ pc' = "formatted"
    /\ UNCHANGED <<script, cfg, max_items, feedIdx, seen, collected, rawItems,
                   headlines, encountered, fetchLog, anyFailed, anyUsable,
                   httpCalls, sendLog, destIdx, exitCode, path, waPayload, fmtIn>>

fmt_WhatsAppSlice ==
    /\ pc = "formatted"
    /\ waPayload' = Slice(text, WhatsAppLimit)
    /\ pc' = "sliced"
    /\ UNCHANGED <<script, cfg, max_items, feedIdx, seen, collected, rawItems,
                   headlines, encountered, fetchLog, anyFailed, anyUsable,
                   httpCalls, sendLog, destIdx, exitCode, path, text, fmtIn>>

NextFmt == fmt_FormatText \/ fmt_WhatsAppSlice

SpecFormat == InitFmt /\ [][NextFmt]_vars

---------------------------------------------------------------------------
(* Properties of the aggregators, checked under SpecAgg *)

\* indices of the entries that are the first to carry their key
FirstIdx(s, es) ==
    { i \in DOMAIN es :
        /\ HasKey(s, es[i])
        /\ \A j \in 1..(i - 1) : HasKey(s, es[j]) => Key(s, es[j]) # Key(s, es[i]) }

RECURSIVE Pick(_, _, _)
Pick(es, I, i) ==
    IF i > Len(es) THEN <<>>
    ELSE (IF i \in I THEN <<es[i]>> ELSE <<>>) \o Pick(es, I, i + 1)

FirstOccurrences(s, es) == Pick(es, FirstIdx(s, es), 1)

\* C1: the list an aggregator returns has at most max_items entries, for
\* every cap 0..MaxN, the cap 0 included.
C1_AtMostCap == Returned => Len(headlines) <= max_items

\* C2: no two entries of the returned list share a dedupe key: the
\* lowercased, whitespace-collapsed title in collect_top_headlines, the link
\* in fetch_items and fetch_rss_items.
C2_NoDuplicateKeys ==
    Returned =>
        \A i, j \in DOMAIN headlines :
            i # j => Key(script, headlines[i]) # Key(script, headlines[j])

\* C2 witness: fetch_items returned two entries after it met the same link
\* twice, once within one feed and once again in a later feed.
C2_Witness ==
    /\ script = "newsbot_multi"
    /\ Returned
    /\ Len(headlines) = 2
    /\ \E i, j, k \in DOMAIN encountered :
        /\ i < j /\ j < k
        /\ encountered[i].link # ""
        /\ encountered[i].link = encountered[j].link
        /\ encountered[i].source = encountered[j].source
        /\ encountered[i].link = encountered[k].link
        /\ encountered[i].source # encountered[k].source

\* C3: no entry of the returned list has an empty title.
C3_NoEmptyTitle ==
    Returned => \A i \in DOMAIN headlines : headlines[i].title # <<>>

\* C4: the returned list is the sequence of first occurrences of each dedupe
\* key, in the order the entries were met, truncated to the cap.
C4_FirstOccurrencesInOrder ==
    (Returned /\ script # "newsbot_once_rss") =>
        headlines = Take(FirstOccurrences(script, encountered), max_items)

\* C5: no feed is fetched once the number of unique entries collected has
\* reached the cap.
C5_NoFetchAtCap == \A k \in DOMAIN fetchLog : fetchLog[k] < max_items

---------------------------------------------------------------------------
(* Properties of whole runs, checked under Spec *)

CredentialsMissing == ~cfg.token \/ ~cfg.chatIds

Attempts(channel) ==
    Cardinality({ k \in DOMAIN sendLog : sendLog[k].channel = channel })

\* C6: with the bot token or the destination chat id missing, the run makes
\* no HTTP call and ends with a non-zero exit status.
C6_MissingCredentialsExitFirst ==
    CredentialsMissing => (httpCalls = 0 /\ (pc = "done" => exitCode # 0))

\* C7: a failed send never keeps the remaining destinations and channels
\* from being attempted, and the run still ends normally: every chat id of
\* run_once, every recipient of send_whatsapp, and each configured channel
\* of newsbot_multi.main has its attempt.
C7_FailedSendBlocksNoOther ==
    (pc = "done" /\ path = "dispatched") =>
        /\ exitCode = 0
        /\ script = "fetch_news" => Attempts("telegram") = cfg.numChats
        /\ script = "newsbot_multi" =>
            /\ (cfg.chatIds /\ cfg.token) => Attempts("telegram") = 1
            /\ (cfg.email /\ cfg.emailFrom) => Attempts("email") = 1
            /\ (cfg.twilioSid /\ cfg.twilioAuth) => Attempts("whatsapp") = cfg.numWa

\* C8: when every configured feed was fetched and none delivered an entry
\* the aggregator keeps, the result is empty, the run ends on the
\* "nothing to send" path with exit status 0 and without any send; and a
\* failed fetch never ends the run nor keeps the remaining feeds from being
\* fetched.
C8_AllFeedsFailNothingSent ==
    /\ (pc = "done" /\ Len(fetchLog) = NumFeeds /\ ~anyUsable) =>
            /\ headlines = <<>>
            /\ path = "nothing_to_send"
            /\ exitCode = 0
            /\ sendLog = <<>>
    /\ (anyFailed /\ pc \in {"collect", "fetch"}) => exitCode = -1
    /\ (anyFailed /\ pc \notin {"collect", "fetch", "blocked"}) =>
            \/ Len(fetchLog) = NumFeeds
            \/ Len(headlines) >= max_items

\* C8 witness: a run of newsbot_multi.main in which every feed failed ended
\* on the "nothing to send" path.
C8_Witness ==
    /\ script = "newsbot_multi"
    /\ pc = "done"
    /\ Len(fetchLog) = NumFeeds
    /\ anyFailed
    /\ ~anyUsable
    /\ cfg.token /\ cfg.chatIds /\ cfg.email /\ cfg.emailFrom
    /\ path = "nothing_to_send"

\* C10: every network call is bounded by a timeout, so a run whose endpoint
\* never answers is never left waiting: until it has ended, it can take a
\* step.
C10_NeverLeftWaiting == pc = "done" \/ ENABLED Next

---------------------------------------------------------------------------
(* Property of format_text, checked under SpecFormat *)

\* C9: a message whose rendering exceeds the channel limit is handed over
\* with at most that many characters and still ending with the whole
\* continuation notice: 3900 for format_text, 1500 for the WhatsApp slice.
C9_TruncatedWithinLimit ==
    /\ (pc \in {"formatted", "sliced"} /\ TextLen(Render(fmtIn)) > TextLimit) =>
            (TextLen(text) <= TextLimit /\ EndsWithNotice(text))
    /\ (pc = "sliced" /\ TextLen(text) > WhatsAppLimit) =>
            (TextLen(waPayload) <= WhatsAppLimit /\ EndsWithNotice(waPayload))

=============================================================================
